---- MODULE Spec2Model ----
(***************************************************************************)
(* Convex-hull ground-state analysis of djlib (src/djlib/clex/clex.py).   *)
(*                                                                         *)
(* Numbers.  The program computes in floating point; the model computes   *)
(* exactly.  Inputs (compositions, energies, correlations, ECI) are       *)
(* integers, every value derived from them is a rational kept in lowest   *)
(* terms, and NaN is a value of its own.  A float is the record           *)
(*     [nan |-> BOOLEAN, n |-> Int, d |-> Nat \ {0}].                     *)
(* Rounding error of IEEE arithmetic is therefore outside the model.      *)
(*                                                                         *)
(* Arrays.  A numpy array is a sequence; Python's 0-based positions are   *)
(* kept wherever the program stores or returns them (simplices, vertex    *)
(* indices, reported configuration indices): row j of the program is      *)
(* element j + 1 of the sequence.                                         *)
(***************************************************************************)
EXTENDS Integers, Sequences, FiniteSets, TLC

VARIABLES
    pc,                              \* position of the running call
    corr, comp, formation_energy,    \* the dataset, row-aligned
    eci_set,                         \* the candidate ECI vectors
    corr_calculated, comp_calculated, formation_energy_calculated,
    points,                          \* the array handed to ConvexHull
    hull,                            \* the ConvexHull object
    dft_hull_simplices, dft_hull_config_indices,
    dft_hull_corr, dft_hull_vertices,
    eci_pos,                         \* number of ECI vectors already scanned
    hulldist,                        \* checkhull's result in the last iteration
    below_hull_indices,              \* the indices the last iteration added
    proposed_ground_states_indices,  \* the accumulator, returned at the end
    hull_comps, hull_energies,       \* the arguments of a direct call of
    test_comp, test_energy,          \*   checkhull
    hull_dist,                       \* and what it returned
    eci_walk_step_size, iterations,  \* the parameters of run_eci_monte_carlo
    sample_frequency, burn_in,
    lasso_eci,                       \* the ECI the walk starts from
    mc_i,                            \* the loop variable i: steps done so far
    mc_current_eci,
    eci_random_vec, proposed_eci,    \* the draw and the proposal of the last step
    mh_ratio, acceptance_comparison, \* its ratio and its uniform draw
    acceptance, rms, sampled_eci,    \* the lists of the run
    acceptance_prob

\* The arguments and result of a direct call of checkhull.
callVars == <<hull_comps, hull_energies, test_comp, test_energy, hull_dist>>

\* The parameters of run_eci_monte_carlo.
paramVars == <<eci_walk_step_size, iterations, sample_frequency, burn_in, lasso_eci>>

\* The locals of run_eci_monte_carlo beyond those it shares, by name and by
\* meaning, with find_proposed_ground_states.
mcVars == <<paramVars, mc_i, mc_current_eci, eci_random_vec, proposed_eci, mh_ratio,
            acceptance_comparison, acceptance, rms, sampled_eci, acceptance_prob>>

vars == <<pc, corr, comp, formation_energy, eci_set, corr_calculated,
          comp_calculated, formation_energy_calculated, points, hull,
          dft_hull_simplices, dft_hull_config_indices, dft_hull_corr,
          dft_hull_vertices, eci_pos, hulldist, below_hull_indices,
          proposed_ground_states_indices, callVars, mcVars>>

-----------------------------------------------------------------------------
(* Bounds of the model. *)

MaxRows == 4
MaxComp == 2
MaxEnergy == 1
MaxEciSet == 2
MaxHullPoints == 3
MaxQueries == 2
MaxIterations == 3
MaxBurnIn == 2
MaxFrequency == 2
MaxStepSize == 1
UniformSteps == 2

-----------------------------------------------------------------------------
(* Exact arithmetic standing for the program's floats. *)

Abs(a) == IF a < 0 THEN -a ELSE a

RECURSIVE Gcd(_, _)
Gcd(a, b) == IF b = 0 THEN a ELSE Gcd(b, a % b)

\* The rational n/d (d # 0) in lowest terms with a positive denominator.
Rat(n, d) ==
    LET s == IF d < 0 THEN -1 ELSE 1
        g == Gcd(Abs(n), Abs(d))
    IN  [nan |-> FALSE, n |-> (s * n) \div g, d |-> (s * d) \div g]

Num(i) == [nan |-> FALSE, n |-> i, d |-> 1]
NaN == [nan |-> TRUE, n |-> 0, d |-> 1]

FAdd(a, b) == IF a.nan \/ b.nan THEN NaN ELSE Rat(a.n * b.d + b.n * a.d, a.d * b.d)
FSub(a, b) == IF a.nan \/ b.nan THEN NaN ELSE Rat(a.n * b.d - b.n * a.d, a.d * b.d)
FMul(a, b) == IF a.nan \/ b.nan THEN NaN ELSE Rat(a.n * b.n, a.d * b.d)
\* a / b for b # 0
FDiv(a, b) == IF a.nan \/ b.nan THEN NaN ELSE Rat(a.n * b.d, a.d * b.n)
\* IEEE comparisons: every comparison with NaN is false.
FLess(a, b) == ~a.nan /\ ~b.nan /\ a.n * b.d < b.n * a.d
FLeq(a, b) == ~a.nan /\ ~b.nan /\ a.n * b.d <= b.n * a.d
FEq(a, b) == ~a.nan /\ ~b.nan /\ a.n * b.d = b.n * a.d

-----------------------------------------------------------------------------
(* numpy array operations used by the program. *)

\* PyIndex counting from the back one place late: -2 is the last element.
PyIndex_late(seq, i) == IF i < 0 THEN seq[Len(seq) + i + 2] ELSE seq[i + 1]

\* seq[i] with Python's indexing: i >= 0 counts from the front (0-based),
\* i < 0 from the back (-1 is the last element).
PyIndex(seq, i) == IF i < 0 THEN seq[Len(seq) + i + 1] ELSE seq[i + 1]

\* arr[mask]: the elements at the positions where the boolean mask is True.
RECURSIVE MaskSelect(_, _)
MaskSelect(arr, mask) ==
    IF arr = <<>> THEN <<>>
    ELSE IF Head(mask) THEN <<Head(arr)>> \o MaskSelect(Tail(arr), Tail(mask))
         ELSE MaskSelect(Tail(arr), Tail(mask))

\* arr[idx]: the rows at the 0-based positions idx, in idx's order.
Take(arr, idx) == [t \in 1..Len(idx) |-> arr[idx[t] + 1]]

\* mask.nonzero(), ravelled: the 0-based positions of True, ascending.
RECURSIVE NonzeroFrom(_, _)
NonzeroFrom(mask, at) ==
    IF mask = <<>> THEN <<>>
    ELSE (IF Head(mask) THEN <<at>> ELSE <<>>) \o NonzeroFrom(Tail(mask), at + 1)

Nonzero(mask) == NonzeroFrom(mask, 0)

\* The elements of a finite set of integers as an ascending sequence.
RECURSIVE Ascending(_)
Ascending(S) ==
    IF S = {} THEN <<>>
    ELSE LET m == CHOOSE x \in S : \A y \in S : x <= y
         IN  <<m>> \o Ascending(S \ {m})

\* np.ravel of a 2-d array of rows: the rows one after the other.
RECURSIVE Ravel(_)
Ravel(rows) == IF rows = <<>> THEN <<>> ELSE Head(rows) \o Ravel(Tail(rows))

Range(seq) == {seq[t] : t \in 1..Len(seq)}

\* Unique without the removal of repeated values.
Unique_repeating(seq) == seq

\* np.unique of a 1-d array: its distinct values in ascending order.
Unique(seq) == Ascending(Range(seq))

\* np.matmul(matrix, vector) for integer entries: one dot product per row.
RECURSIVE Dot(_, _)
Dot(u, v) == IF u = <<>> THEN 0 ELSE Head(u) * Head(v) + Dot(Tail(u), Tail(v))

Matmul(m, v) == [t \in 1..Len(m) |-> Dot(m[t], v)]

-----------------------------------------------------------------------------
(* scipy.spatial.ConvexHull (Qhull), by what it computes.  The library is  *)
(* not part of the repository; the program reads three of its fields:     *)
(* points, simplices and equations.  Point sets of two columns (one       *)
(* composition axis and the energy) and of three columns (two composition *)
(* axes and the energy) are computed.  With three columns the facets are  *)
(* exact for point sets whose hull facets are triangles (no four corners  *)
(* in one facet plane), which is all the model feeds it.                  *)

\* Twice the signed area of the triangle p, q, r: positive when r lies to
\* the left of the directed line p -> q.
Cross(p, q, r) == (q[1] - p[1]) * (r[2] - p[2]) - (q[2] - p[2]) * (r[1] - p[1])

\* (q - p) . (r - p)
Along(p, q, r) == (q[1] - p[1]) * (r[1] - p[1]) + (q[2] - p[2]) * (r[2] - p[2])

\* Qhull refuses an input without a full-dimensional initial simplex:
\* fewer than three points, or all points on one line.
Degenerate(P) ==
    \/ Len(P) < 3
    \/ \A j, k \in 1..Len(P) : Cross(P[1], P[j], P[k]) = 0

\* P[i] is a corner of the convex hull: some line through it and another
\* point has every point on one closed side, and P[i] ends the part of the
\* point set lying on that line.
Extreme(P, i) ==
    \E j \in 1..Len(P) :
        /\ P[j] # P[i]
        /\ \A r \in 1..Len(P) :
              /\ Cross(P[i], P[j], P[r]) >= 0
              /\ Cross(P[i], P[j], P[r]) = 0 => Along(P[i], P[j], P[r]) >= 0

\* The sets of positions Qhull may report as hull vertices: every corner of
\* the hull once.  When several input points coincide at a corner, which of
\* them Qhull keeps is not specified, so each choice is a possible outcome.
VertexChoices(P) ==
    LET corners == {i \in 1..Len(P) : Extreme(P, i)}
    IN  {V \in SUBSET corners :
            \A i \in corners : Cardinality({j \in V : P[j] = P[i]}) = 1}

\* The facets (edges) joining the vertices V: pairs of vertices with every
\* point on one closed side of the line through them.
Edges(P, V) ==
    {e \in V \X V :
        /\ e[1] < e[2]
        /\ \/ \A r \in 1..Len(P) : Cross(P[e[1]], P[e[2]], P[r]) >= 0
           \/ \A r \in 1..Len(P) : Cross(P[e[1]], P[e[2]], P[r]) <= 0}

\* The hyperplane equation <<a, b, offset>> of the edge e, a*x + b*y + offset
\* <= 0 for every point of the set (outward normal).  Qhull scales the
\* normal to unit length; the row here is a positive multiple of Qhull's, so
\* every coefficient has Qhull's sign.
Equation(P, e) ==
    LET p == P[e[1]]
        q == P[e[2]]
        left == \A r \in 1..Len(P) : Cross(p, q, P[r]) >= 0
        a == IF left THEN q[2] - p[2] ELSE p[2] - q[2]
        b == IF left THEN p[1] - q[1] ELSE q[1] - p[1]
    IN  <<a, b, -(a * p[1] + b * p[2])>>

\* The edges in a fixed order (Qhull's facet order is its own; the program
\* never depends on it).
RECURSIVE EdgeSeq(_)
EdgeSeq(E) ==
    IF E = {} THEN <<>>
    ELSE LET m == CHOOSE e \in E :
                    \A f \in E : e[1] < f[1] \/ (e[1] = f[1] /\ e[2] <= f[2])
         IN  <<m>> \o EdgeSeq(E \ {m})

\* Six times the signed volume of the tetrahedron a, b, c, d.
Orient3(a, b, c, d) ==
    LET ux == b[1] - a[1]
        uy == b[2] - a[2]
        uz == b[3] - a[3]
        vx == c[1] - a[1]
        vy == c[2] - a[2]
        vz == c[3] - a[3]
        wx == d[1] - a[1]
        wy == d[2] - a[2]
        wz == d[3] - a[3]
    IN  ux * (vy * wz - vz * wy) - uy * (vx * wz - vz * wx) + uz * (vx * wy - vy * wx)

\* (b - a) x (c - a)
Normal3(a, b, c) ==
    LET ux == b[1] - a[1]
        uy == b[2] - a[2]
        uz == b[3] - a[3]
        vx == c[1] - a[1]
        vy == c[2] - a[2]
        vz == c[3] - a[3]
    IN  <<uy * vz - uz * vy, uz * vx - ux * vz, ux * vy - uy * vx>>

Dot3(u, v) == u[1] * v[1] + u[2] * v[2] + u[3] * v[3]
Minus3(a, b) == <<a[1] - b[1], a[2] - b[2], a[3] - b[3]>>

\* Fewer than four points, or all points in one plane.
Degenerate3(P) ==
    \/ Len(P) < 4
    \/ \A j, k, m \in 1..Len(P) : Orient3(P[1], P[j], P[k], P[m]) = 0

\* The plane through P[i], P[j], P[k] has every point on one closed side.
Supporting3(P, i, j, k) ==
    /\ Normal3(P[i], P[j], P[k]) # <<0, 0, 0>>
    /\ \/ \A r \in 1..Len(P) : Orient3(P[i], P[j], P[k], P[r]) >= 0
       \/ \A r \in 1..Len(P) : Orient3(P[i], P[j], P[k], P[r]) <= 0

\* P[i] is a corner of the hull: it lies in a supporting plane and is a
\* corner of the polygon of the points in that plane.
Extreme3(P, i) ==
    \E j, k \in 1..Len(P) :
        /\ Supporting3(P, i, j, k)
        /\ LET nrm == Normal3(P[i], P[j], P[k])
               inplane == {r \in 1..Len(P) : Orient3(P[i], P[j], P[k], P[r]) = 0}
           IN  \E q \in inplane :
                   /\ P[q] # P[i]
                   /\ \A r \in inplane :
                         LET side == Dot3(Normal3(P[i], P[q], P[r]), nrm)
                         IN  /\ side >= 0
                             /\ side = 0 =>
                                    Dot3(Minus3(P[q], P[i]), Minus3(P[r], P[i])) >= 0

VertexChoices3(P) ==
    LET corners == {i \in 1..Len(P) : Extreme3(P, i)}
    IN  {V \in SUBSET corners :
            \A i \in corners : Cardinality({j \in V : P[j] = P[i]}) = 1}

\* The facets (triangles) spanned by the vertices V.
Triangles(P, V) ==
    {t \in V \X V \X V :
        /\ t[1] < t[2] /\ t[2] < t[3]
        /\ Supporting3(P, t[1], t[2], t[3])}

\* <<a, b, c, offset>> of the triangle t, outward normal, a positive
\* multiple of Qhull's unit-normal row.
Equation3(P, t) ==
    LET nrm == Normal3(P[t[1]], P[t[2]], P[t[3]])
        inward == \A r \in 1..Len(P) : Orient3(P[t[1]], P[t[2]], P[t[3]], P[r]) >= 0
        out == IF inward THEN <<-nrm[1], -nrm[2], -nrm[3]>> ELSE nrm
    IN  out \o <<-Dot3(out, P[t[1]])>>

RECURSIVE TriangleSeq(_)
TriangleSeq(T) ==
    IF T = {} THEN <<>>
    ELSE LET m == CHOOSE t \in T :
                    \A u \in T :
                        \/ t[1] < u[1]
                        \/ (t[1] = u[1] /\ t[2] < u[2])
                        \/ (t[1] = u[1] /\ t[2] = u[2] /\ t[3] <= u[3])
         IN  <<m>> \o TriangleSeq(T \ {m})

NoHull == [ok |-> FALSE, points |-> <<>>, simplices |-> <<>>, equations |-> <<>>]

\* A row holding NaN: ConvexHull raises ValueError("Points cannot contain NaN").
HasNaN(pts) == \E j \in 1..Len(pts) : \E c \in 1..Len(pts[j]) : pts[j][c].nan

\* The points as integer coordinates (the model's inputs are integers).
Coords(pts) == [j \in 1..Len(pts) |-> [c \in 1..Len(pts[j]) |-> pts[j][c].n]]

\* ConvexHull(points) raises instead of returning a hull: no points, a NaN
\* coordinate, or no full-dimensional simplex among the points.
HullRaises(pts) ==
    \/ Len(pts) = 0
    \/ HasNaN(pts)
    \/ IF Len(pts[1]) = 2 THEN Degenerate(Coords(pts)) ELSE Degenerate3(Coords(pts))

\* The vertex sets Qhull may report for the points.
HullVertexChoices(pts) ==
    IF Len(pts[1]) = 2 THEN VertexChoices(Coords(pts)) ELSE VertexChoices3(Coords(pts))

\* The hull object for the vertex choice V: simplices hold 0-based point
\* positions, equations one row per simplex.
ConvexHull(pts, V) ==
    LET P == Coords(pts)
        facets == IF Len(pts[1]) = 2 THEN EdgeSeq(Edges(P, V))
                  ELSE TriangleSeq(Triangles(P, V))
    IN  [ok |-> TRUE,
         points |-> pts,
         simplices |-> [f \in 1..Len(facets) |->
                           [c \in 1..Len(facets[f]) |-> facets[f][c] - 1]],
         equations |-> [f \in 1..Len(facets) |->
                           IF Len(pts[1]) = 2 THEN Equation(P, facets[f])
                           ELSE Equation3(P, facets[f])]]

-----------------------------------------------------------------------------
(* lower_hull, clex.py lines 19-39. *)

\* hull.equations[:, energy_index] < 0
\* The default of lower_hull's parameter energy_index.
energy_index_default == -2

\* LowerMask with "<= 0" in place of "< 0".
LowerMask_nonpositive(h, energy_index) ==
    [f \in 1..Len(h.equations) |-> PyIndex(h.equations[f], energy_index) <= 0]

LowerMask(h, energy_index) ==
    [f \in 1..Len(h.equations) |-> PyIndex(h.equations[f], energy_index) < 0]

\* lower_hull without the selection of line 37.
lower_hull_every_facet(h, energy_index) ==
    LET lower_hull_simplices == h.simplices
        lower_hull_vertices == Unique(Ravel(lower_hull_simplices))
    IN  <<lower_hull_simplices, lower_hull_vertices>>

lower_hull(h, energy_index) ==
    LET lower_hull_simplices == MaskSelect(h.simplices, LowerMask(h, energy_index))
        lower_hull_vertices == Unique(Ravel(lower_hull_simplices))
    IN  <<lower_hull_simplices, lower_hull_vertices>>

-----------------------------------------------------------------------------
(* scipy.interpolate.griddata(points, values, xi, method="linear"), by    *)
(* what it computes.  With one composition axis it sorts the points and   *)
(* uses interp1d(bounds_error=False, fill_value=nan); with more axes it   *)
(* uses LinearNDInterpolator over the Delaunay triangulation of the       *)
(* points.  The result is [ndim, data]: interp1d answers in xi's shape    *)
(* (n, 1), ndim = 2; LinearNDInterpolator answers in shape (n,), ndim = 1.*)

\* np.argsort of distinct integers: the 1-based positions in ascending
\* order of their values.
RECURSIVE ArgsortOf(_, _)
ArgsortOf(x, left) ==
    IF left = {} THEN <<>>
    ELSE LET m == CHOOSE i \in left : \A j \in left : x[i] < x[j] \/ (x[i] = x[j] /\ i <= j)
         IN  <<m>> \o ArgsortOf(x, left \ {m})

Argsort(x) == ArgsortOf(x, 1..Len(x))

\* np.searchsorted(x, v), side "left": the number of elements below v.
Searchsorted(x, v) == Cardinality({i \in 1..Len(x) : x[i] < v})

Clip(v, lo, hi) == IF v < lo THEN lo ELSE IF v > hi THEN hi ELSE v

\* Interp1d with fill_value=0 in place of nan.
Interp1d_zero_outside(x, y, x_new) ==
    IF x_new < x[1] \/ x_new > x[Len(x)] THEN Num(0)
    ELSE LET hi == Clip(Searchsorted(x, x_new), 1, Len(x) - 1) + 1
             lo == hi - 1
         IN  IF x[hi] = x[lo] THEN NaN
             ELSE FAdd(FMul(Rat(y[hi] - y[lo], x[hi] - x[lo]), Num(x_new - x[lo])),
                       Num(y[lo]))

\* interp1d(x, y)(x_new) for sorted x: nan outside [x[0], x[-1]], otherwise
\* slope * (x_new - x_lo) + y_lo on the bracketing interval.  An interval of
\* zero width gives inf * 0 or nan * 0, which is nan.
Interp1d(x, y, x_new) ==
    IF x_new < x[1] \/ x_new > x[Len(x)] THEN NaN
    ELSE LET hi == Clip(Searchsorted(x, x_new), 1, Len(x) - 1) + 1
             lo == hi - 1
         IN  IF x[hi] = x[lo] THEN NaN
             ELSE FAdd(FMul(Rat(y[hi] - y[lo], x[hi] - x[lo]), Num(x_new - x[lo])),
                       Num(y[lo]))

\* Twice the signed area of the composition triangle a, b, c.
Area2(a, b, c) == (b[1] - a[1]) * (c[2] - a[2]) - (b[2] - a[2]) * (c[1] - a[1])

Sq(v) == v * v

\* d lies strictly inside the circle through a, b, c (a, b, c not collinear).
InCircle(a, b, c, d) ==
    LET ax == a[1] - d[1]
        ay == a[2] - d[2]
        bx == b[1] - d[1]
        by == b[2] - d[2]
        cx == c[1] - d[1]
        cy == c[2] - d[2]
        det == (Sq(ax) + Sq(ay)) * (bx * cy - cx * by)
               - (Sq(bx) + Sq(by)) * (ax * cy - cx * ay)
               + (Sq(cx) + Sq(cy)) * (ax * by - bx * ay)
    IN  IF Area2(a, b, c) > 0 THEN det > 0 ELSE det < 0

\* The Delaunay triangles of the compositions C: the triangles whose
\* circumcircle holds no other point.
Delaunay(C) ==
    {t \in (1..Len(C)) \X (1..Len(C)) \X (1..Len(C)) :
        /\ t[1] < t[2] /\ t[2] < t[3]
        /\ Area2(C[t[1]], C[t[2]], C[t[3]]) # 0
        /\ \A r \in 1..Len(C) : ~InCircle(C[t[1]], C[t[2]], C[t[3]], C[r])}

\* The composition x lies in the closed triangle t.
InTriangle(C, t, x) ==
    LET A == Area2(C[t[1]], C[t[2]], C[t[3]])
        s == IF A > 0 THEN 1 ELSE -1
    IN  /\ s * Area2(x, C[t[2]], C[t[3]]) >= 0
        /\ s * Area2(C[t[1]], x, C[t[3]]) >= 0
        /\ s * Area2(C[t[1]], C[t[2]], x) >= 0

\* LinearNDInterpolator(C, y)(x): the barycentric interpolation on the
\* Delaunay triangle holding x, nan when no triangle holds it.
LinearND(C, y, x) ==
    LET T == {t \in Delaunay(C) : InTriangle(C, t, x)}
    IN  IF T = {} THEN NaN
        ELSE LET t == CHOOSE u \in T : TRUE
                 A == Area2(C[t[1]], C[t[2]], C[t[3]])
             IN  Rat(Area2(x, C[t[2]], C[t[3]]) * y[t[1]]
                     + Area2(C[t[1]], x, C[t[3]]) * y[t[2]]
                     + Area2(C[t[1]], C[t[2]], x) * y[t[3]], A)

griddata(gpoints, values, xi) ==
    IF Len(gpoints[1]) = 1
    THEN LET flat == [t \in 1..Len(gpoints) |-> gpoints[t][1]]
             idx == Argsort(flat)
             x == [t \in 1..Len(idx) |-> flat[idx[t]]]
             y == [t \in 1..Len(idx) |-> values[idx[t]]]
         IN  [ndim |-> 2, data |-> [q \in 1..Len(xi) |-> Interp1d(x, y, xi[q][1])]]
    ELSE [ndim |-> 1, data |-> [q \in 1..Len(xi) |-> LinearND(gpoints, values, xi[q])]]

-----------------------------------------------------------------------------
(* checkhull, clex.py lines 42-69. *)

\* BroadcastSub with the operands of the subtraction exchanged.
BroadcastSub_reversed(te, interp_hull) ==
    IF interp_hull.ndim = 2
    THEN [i \in 1..Len(te) |-> <<FSub(interp_hull.data[i], Num(te[i]))>>]
    ELSE [i \in 1..Len(te) |->
            [j \in 1..Len(interp_hull.data) |->
                FSub(interp_hull.data[j], Num(te[i]))]]

\* test_energy - interp_hull under numpy broadcasting, test_energy being a
\* column of shape (n, 1): against a column (n, 1) the difference is taken
\* row by row, against a vector of shape (m,) it is the n x m table of all
\* differences.  The result is the list of rows.
BroadcastSub(te, interp_hull) ==
    IF interp_hull.ndim = 2
    THEN [i \in 1..Len(te) |-> <<FSub(Num(te[i]), interp_hull.data[i])>>]
    ELSE [i \in 1..Len(te) |->
            [j \in 1..Len(interp_hull.data) |->
                FSub(Num(te[i]), interp_hull.data[j])]]

\* griddata raises (QhullError) when compositions of two or more axes have
\* no triangle: fewer than three points, or all on one line.
GridRaises(gpoints) ==
    /\ Len(gpoints[1]) > 1
    /\ \A i, j, k \in 1..Len(gpoints) : Area2(gpoints[i], gpoints[j], gpoints[k]) = 0

\* hc, he, tc, te: the parameters hull_comps, hull_energies, test_comp and
\* test_energy.
checkhull(hc, he, tc, te) ==
    LET interp_hull == griddata(hc, he, tc)
    IN  Ravel(BroadcastSub(te, interp_hull))

-----------------------------------------------------------------------------
(* find_proposed_ground_states, clex.py lines 80-165. *)

\* A formation energy as read from the query file: a number, None (casm
\* 1.2) or the empty mapping {} (casm 1.1.2).
Present(v) == [kind |-> "num", v |-> v]
None == [kind |-> "None", v |-> 0]
Empty == [kind |-> "Empty", v |-> 0]

\* lines 118-120: None, unless {} occurs in formation_energy.
uncalculated_energy_descriptor(fe) ==
    IF \E j \in 1..Len(fe) : fe[j] = Empty THEN Empty ELSE None

\* line 123: formation_energy != uncalculated_energy_descriptor, elementwise.
downsample_selection(fe) ==
    [j \in 1..Len(fe) |-> fe[j] # uncalculated_energy_descriptor(fe)]

\* The value numpy stores when an entry of the object array is assigned into
\* the float array points: a number as itself, None as nan.
AsFloat(e) == IF e.kind = "num" THEN Num(e.v) ELSE NaN

\* lines 129-133: compositions in the leading columns, energy in the last.
StackPoints(comps, energies) ==
    [j \in 1..Len(energies) |->
        [c \in 1..Len(comps[j]) |-> Num(comps[j][c])] \o <<AsFloat(energies[j])>>]

\* dft_hull_vertices[:, 0:-1] as integer compositions.
HullComps(vertices) ==
    [t \in 1..Len(vertices) |->
        [c \in 1..(Len(vertices[t]) - 1) |-> vertices[t][c].n]]

\* BelowHullSelection with "<= 0" in place of "< 0".
BelowHullSelection_nonpositive(dist) ==
    [i \in 1..Len(dist) |-> FLeq(dist[i], Num(0))]

\* hulldist < 0, elementwise.
BelowHullSelection(dist) == [i \in 1..Len(dist) |-> FLess(dist[i], Num(0))]

\* lines 115-126
Downsample ==
    /\ pc = "start"
    /\ corr_calculated' = MaskSelect(corr, downsample_selection(formation_energy))
    /\ formation_energy_calculated' =
           MaskSelect(formation_energy, downsample_selection(formation_energy))
    /\ comp_calculated' = MaskSelect(comp, downsample_selection(formation_energy))
    /\ pc' = "downsampled"
    /\ UNCHANGED <<corr, comp, formation_energy, eci_set, points, hull,
                   dft_hull_simplices, dft_hull_config_indices, dft_hull_corr,
                   dft_hull_vertices, eci_pos, hulldist, below_hull_indices,
                   proposed_ground_states_indices, callVars, mcVars>>

\* BuildHull going on to the lower hull when ConvexHull fails.
BuildHull_failure_ignored ==
    /\ pc = "downsampled"
    /\ points' = StackPoints(comp_calculated, formation_energy_calculated)
    /\ pc' = "hull"
    /\ IF HullRaises(points')
       THEN hull' = hull
       ELSE \E V \in HullVertexChoices(points') : hull' = ConvexHull(points', V)
    /\ UNCHANGED <<corr, comp, formation_energy, eci_set, corr_calculated,
                   comp_calculated, formation_energy_calculated,
                   dft_hull_simplices, dft_hull_config_indices, dft_hull_corr,
                   dft_hull_vertices, eci_pos, hulldist, below_hull_indices,
                   proposed_ground_states_indices, callVars, mcVars>>

\* lines 129-134: the point array is built and handed to ConvexHull, which
\* returns the hull or raises.
BuildHull ==
    /\ pc = "downsampled"
    /\ points' = StackPoints(comp_calculated, formation_energy_calculated)
    /\ IF HullRaises(points')
       THEN /\ pc' = "raised"
            /\ hull' = hull
       ELSE /\ pc' = "hull"
            /\ \E V \in HullVertexChoices(points') : hull' = ConvexHull(points', V)
    /\ UNCHANGED <<corr, comp, formation_energy, eci_set, corr_calculated,
                   comp_calculated, formation_energy_calculated,
                   dft_hull_simplices, dft_hull_config_indices, dft_hull_corr,
                   dft_hull_vertices, eci_pos, hulldist, below_hull_indices,
                   proposed_ground_states_indices, callVars, mcVars>>

\* lines 135-137
LowerHull ==
    /\ pc = "hull"
    /\ dft_hull_simplices' = lower_hull(hull, -2)[1]
    /\ dft_hull_config_indices' = lower_hull(hull, -2)[2]
    /\ dft_hull_corr' = Take(corr_calculated, dft_hull_config_indices')
    /\ dft_hull_vertices' = Take(hull.points, dft_hull_config_indices')
    /\ pc' = "loop"
    /\ UNCHANGED <<corr, comp, formation_energy, eci_set, corr_calculated,
                   comp_calculated, formation_energy_calculated, points, hull,
                   eci_pos, hulldist, below_hull_indices,
                   proposed_ground_states_indices, callVars, mcVars>>

\* Iterate reporting a row only the first time it falls below the hull: a
\* pass whose result depends on the passes before it.
Iterate_first_report_only ==
    /\ pc = "loop"
    /\ eci_pos < Len(eci_set)
    /\ LET current_eci == eci_set[eci_pos + 1]
           full_predicted_energy == Matmul(corr, current_eci)
           dft_hull_clex_predict_energies == Matmul(dft_hull_corr, current_eci)
           seen == {proposed_ground_states_indices[r] :
                        r \in 1..Len(proposed_ground_states_indices)}
       IN  /\ hulldist' = checkhull(HullComps(dft_hull_vertices),
                                    dft_hull_clex_predict_energies,
                                    comp, full_predicted_energy)
           /\ below_hull_indices' = Nonzero(BelowHullSelection(hulldist'))
           /\ proposed_ground_states_indices' =
                  proposed_ground_states_indices
                  \o SelectSeq(below_hull_indices', LAMBDA r : r \notin seen)
    /\ eci_pos' = eci_pos + 1
    /\ UNCHANGED <<pc, corr, comp, formation_energy, eci_set, corr_calculated,
                   comp_calculated, formation_energy_calculated, points, hull,
                   dft_hull_simplices, dft_hull_config_indices, dft_hull_corr,
                   dft_hull_vertices, callVars, mcVars>>

\* lines 143-164: one pass of the loop over eci_set.
Iterate ==
    /\ pc = "loop"
    /\ eci_pos < Len(eci_set)
    /\ LET current_eci == eci_set[eci_pos + 1]
           full_predicted_energy == Matmul(corr, current_eci)
           dft_hull_clex_predict_energies == Matmul(dft_hull_corr, current_eci)
       IN  /\ hulldist' = checkhull(HullComps(dft_hull_vertices),
                                    dft_hull_clex_predict_energies,
                                    comp, full_predicted_energy)
           /\ below_hull_indices' = Nonzero(BelowHullSelection(hulldist'))
           /\ proposed_ground_states_indices' =
                  proposed_ground_states_indices \o below_hull_indices'
    /\ eci_pos' = eci_pos + 1
    /\ UNCHANGED <<pc, corr, comp, formation_energy, eci_set, corr_calculated,
                   comp_calculated, formation_energy_calculated, points, hull,
                   dft_hull_simplices, dft_hull_config_indices, dft_hull_corr,
                   dft_hull_vertices, callVars, mcVars>>

\* Return only after at least one pass of the loop.
Return_after_pass ==
    /\ pc = "loop"
    /\ eci_pos = Len(eci_set)
    /\ eci_pos > 0
    /\ pc' = "returned"
    /\ UNCHANGED <<corr, comp, formation_energy, eci_set, corr_calculated,
                   comp_calculated, formation_energy_calculated, points, hull,
                   dft_hull_simplices, dft_hull_config_indices, dft_hull_corr,
                   dft_hull_vertices, eci_pos, hulldist, below_hull_indices,
                   proposed_ground_states_indices, callVars, mcVars>>

\* line 165
Return ==
    /\ pc = "loop"
    /\ eci_pos = Len(eci_set)
    /\ pc' = "returned"
    /\ UNCHANGED <<corr, comp, formation_energy, eci_set, corr_calculated,
                   comp_calculated, formation_energy_calculated, points, hull,
                   dft_hull_simplices, dft_hull_config_indices, dft_hull_corr,
                   dft_hull_vertices, eci_pos, hulldist, below_hull_indices,
                   proposed_ground_states_indices, callVars, mcVars>>

\* A direct call of checkhull, lines 42-69.
Checkhull ==
    /\ pc = "checkhull"
    /\ IF GridRaises(hull_comps)
       THEN /\ pc' = "raised"
            /\ hull_dist' = hull_dist
       ELSE /\ pc' = "checkhull_returned"
            /\ hull_dist' = checkhull(hull_comps, hull_energies, test_comp, test_energy)
    /\ UNCHANGED <<corr, comp, formation_energy, eci_set, corr_calculated,
                   comp_calculated, formation_energy_calculated, points, hull,
                   dft_hull_simplices, dft_hull_config_indices, dft_hull_corr,
                   dft_hull_vertices, eci_pos, hulldist, below_hull_indices,
                   proposed_ground_states_indices, hull_comps, hull_energies,
                   test_comp, test_energy, mcVars>>

-----------------------------------------------------------------------------
(* The inputs of the calls. *)

SeqsUpTo(S, n) == UNION {[1..m -> S] : m \in 0..n}

\* No Monte Carlo run is going on.
McIdle ==
    /\ eci_walk_step_size = 0
    /\ iterations = 0
    /\ sample_frequency = 0
    /\ burn_in = 0
    /\ lasso_eci = <<>>
    /\ mc_i = 0
    /\ mc_current_eci = <<>>
    /\ eci_random_vec = <<>>
    /\ proposed_eci = <<>>
    /\ mh_ratio = NaN
    /\ acceptance_comparison = NaN
    /\ acceptance = <<>>
    /\ rms = <<>>
    /\ sampled_eci = <<>>
    /\ acceptance_prob = NaN

\* The sequences of length n over S without a repeated element.
Injective(S, n) == {q \in [1..n -> S] : \A i, j \in 1..n : q[i] = q[j] => i = j}

\* Split a sequence of rows <<comp, energy, corr>> into the three arrays.
Columns(rows) ==
    <<[j \in 1..Len(rows) |-> rows[j][1]],
      [j \in 1..Len(rows) |-> rows[j][2]],
      [j \in 1..Len(rows) |-> rows[j][3]]>>

\* Configurations of a binary alloy (one composition axis): the two end
\* members, a ground state, two configurations above the hull, and two
\* configurations without a calculated energy, one in each notation.
ScanRows ==
    { <<<<0>>, Present(0), <<1, 0>>>>,
      <<<<2>>, Present(0), <<1, 0>>>>,
      <<<<1>>, Present(-1), <<1, 1>>>>,
      <<<<1>>, Present(1), <<1, -1>>>>,
      <<<<1>>, Present(0), <<1, 1>>>>,
      <<<<1>>, None, <<1, 1>>>>,
      <<<<2>>, Empty, <<1, 1>>>> }

\* Configurations of a ternary alloy (two composition axes).
ScanRows2 ==
    { <<<<0, 0>>, Present(0), <<1, 0>>>>,
      <<<<2, 0>>, Present(0), <<1, 0>>>>,
      <<<<0, 2>>, Present(0), <<1, 0>>>>,
      <<<<1, 1>>, Present(-1), <<1, 1>>>>,
      <<<<1, 1>>, Present(1), <<1, 1>>>> }

ScanDatasets ==
    UNION {{Columns(rows) : rows \in [1..n -> ScanRows]} : n \in 3..MaxRows}
    \cup {Columns(rows) : rows \in Injective(ScanRows2, 4)}

ScanEciValues == {<<0, -1>>, <<1, 1>>}

ScanEciSets == SeqsUpTo(ScanEciValues, MaxEciSet)

\* Point sets of a binary alloy with every energy calculated, and a cluster
\* expansion that reproduces the energies: corr[j] = <<1, E[j]>> with the
\* ECI <<0, 1>>.
HullDatasets ==
    UNION {{<<[j \in 1..n |-> <<x[j]>>],
              [j \in 1..n |-> Present(e[j])],
              [j \in 1..n |-> <<1, e[j]>>]>> :
                x \in [1..n -> 0..MaxComp], e \in [1..n -> (-MaxEnergy)..MaxEnergy]} :
           n \in 3..MaxRows}

HullEciSets == {<<<<0, 1>>>>}

InitOver(datasets, ecisets) ==
    /\ pc = "start"
    /\ \E d \in datasets :
          /\ comp = d[1]
          /\ formation_energy = d[2]
          /\ corr = d[3]
    /\ eci_set \in ecisets
    /\ corr_calculated = <<>>
    /\ comp_calculated = <<>>
    /\ formation_energy_calculated = <<>>
    /\ points = <<>>
    /\ hull = NoHull
    /\ dft_hull_simplices = <<>>
    /\ dft_hull_config_indices = <<>>
    /\ dft_hull_corr = <<>>
    /\ dft_hull_vertices = <<>>
    /\ eci_pos = 0
    /\ hulldist = <<>>
    /\ below_hull_indices = <<>>
    /\ proposed_ground_states_indices = <<>>
    /\ hull_comps = <<>>
    /\ hull_energies = <<>>
    /\ test_comp = <<>>
    /\ test_energy = <<>>
    /\ hull_dist = <<>>
    /\ McIdle

Init == InitOver(ScanDatasets, ScanEciSets)

InitHull == InitOver(HullDatasets, HullEciSets)

Next == Downsample \/ BuildHull \/ LowerHull \/ Iterate \/ Return

\* find_proposed_ground_states on alloy datasets with candidate ECI sets.
Spec == Init /\ [][Next]_vars

\* find_proposed_ground_states on every small point set, all energies known.
SpecHull == InitHull /\ [][Next]_vars

-----------------------------------------------------------------------------
(* Direct calls of checkhull. *)

\* One composition axis: distinct hull compositions, queries also one step
\* beyond the largest composition.
CallHulls1 ==
    UNION {{<<[j \in 1..m |-> <<x[j]>>], e>> :
                x \in Injective(0..MaxComp, m), e \in [1..m -> (-MaxEnergy)..0]} :
           m \in 2..MaxHullPoints}

CallQueries1 ==
    UNION {{<<[j \in 1..q |-> <<x[j]>>], e>> :
                x \in [1..q -> 0..(MaxComp + 1)],
                e \in [1..q -> (-MaxEnergy)..MaxEnergy]} :
           q \in 1..MaxQueries}

\* Two composition axes: three hull compositions out of four, of which
\* three lie on one line, and queries on, inside and outside the triangle.
CallHulls2 ==
    {<<x, e>> : x \in Injective({<<0, 0>>, <<2, 0>>, <<0, 2>>, <<1, 1>>}, 3),
                e \in [1..3 -> (-MaxEnergy)..0]}

CallQueries2 ==
    UNION {{<<x, e>> : x \in [1..q -> {<<0, 0>>, <<1, 1>>, <<2, 2>>}],
                       e \in [1..q -> (-MaxEnergy)..MaxEnergy]} :
           q \in 1..MaxQueries}

InitCall(hulls, queries) ==
    /\ pc = "checkhull"
    /\ \E h \in hulls :
          /\ hull_comps = h[1]
          /\ hull_energies = h[2]
    /\ \E q \in queries :
          /\ test_comp = q[1]
          /\ test_energy = q[2]
    /\ hull_dist = <<>>
    /\ corr = <<>>
    /\ comp = <<>>
    /\ formation_energy = <<>>
    /\ eci_set = <<>>
    /\ corr_calculated = <<>>
    /\ comp_calculated = <<>>
    /\ formation_energy_calculated = <<>>
    /\ points = <<>>
    /\ hull = NoHull
    /\ dft_hull_simplices = <<>>
    /\ dft_hull_config_indices = <<>>
    /\ dft_hull_corr = <<>>
    /\ dft_hull_vertices = <<>>
    /\ eci_pos = 0
    /\ hulldist = <<>>
    /\ below_hull_indices = <<>>
    /\ proposed_ground_states_indices = <<>>
    /\ McIdle

InitCheckhull ==
    \/ InitCall(CallHulls1, CallQueries1)
    \/ InitCall(CallHulls2, CallQueries2)

NextCheckhull == Checkhull

\* checkhull called directly on small hulls and queries.
SpecCheckhull == InitCheckhull /\ [][NextCheckhull]_vars

-----------------------------------------------------------------------------
(* lower_hull: which facets and which vertices it returns. *)

\* The entry of facet f's equation that energy_index k selects, counted as
\* Python counts: from the front for k >= 0, from the back for k < 0.
Coefficient(h, f, k) ==
    IF k >= 0 THEN h.equations[f][k + 1]
    ELSE h.equations[f][Len(h.equations[f]) + k + 1]

\* The values energy_index can take on the equations of h.
EnergyIndices(h) ==
    IF Len(h.equations) = 0 THEN {}
    ELSE (-Len(h.equations[1]))..(Len(h.equations[1]) - 1)

Built == hull.ok /\ pc \in {"loop", "returned"}

\* C1: lower_hull returns exactly the facets of the hull whose equation
\* coefficient at energy_index is strictly negative, in the hull's facet
\* order: a facet with a zero or positive coefficient is not returned, every
\* facet with a negative one is.  Stated for every energy_index on every hull
\* built, and for the call with energy_index = -2 the scan makes.
C1_ExactlyNegativeFacets ==
    hull.ok =>
        /\ \A k \in EnergyIndices(hull) :
              LET returned == lower_hull(hull, k)[1]
                  negative == {f \in 1..Len(hull.simplices) : Coefficient(hull, f, k) < 0}
              IN  /\ \A f \in 1..Len(hull.simplices) :
                        (\E r \in 1..Len(returned) : returned[r] = hull.simplices[f])
                            <=> f \in negative
                  /\ Len(returned) = Cardinality(negative)
        /\ Built =>
              /\ \A f \in 1..Len(hull.simplices) :
                    (\E r \in 1..Len(dft_hull_simplices) :
                        dft_hull_simplices[r] = hull.simplices[f])
                        <=> Coefficient(hull, f, -2) < 0
              /\ \A r \in 1..Len(dft_hull_simplices) :
                    \E f \in 1..Len(hull.simplices) :
                        dft_hull_simplices[r] = hull.simplices[f]

\* A hull with a facet of each sign of the energy coefficient, of which the
\* scan kept some and dropped some.
C1_Witness ==
    /\ Built
    /\ \E f, g, u \in 1..Len(hull.simplices) :
          /\ Coefficient(hull, f, -2) < 0
          /\ Coefficient(hull, g, -2) = 0
          /\ Coefficient(hull, u, -2) > 0
    /\ Len(dft_hull_simplices) > 0
    /\ Len(dft_hull_simplices) < Len(hull.simplices)

\* Baselines E = (A + s * x) / 2 over one composition axis, as <<A, s>>.
Baselines == ((-2 * MaxEnergy)..(2 * MaxEnergy)) \X ((-2 * MaxEnergy)..(2 * MaxEnergy))

\* Twice the offset of point j of the hull above baseline b.
Offset2(b, j) ==
    FSub(FMul(Num(2), hull.points[j][2]),
         FAdd(Num(b[1]), FMul(Num(b[2]), hull.points[j][1])))

OnBaseline(b) == {j \in 1..Len(hull.points) : FEq(Offset2(b, j), Num(0))}

AboveBaseline(b) == {j \in 1..Len(hull.points) : FLess(Num(0), Offset2(b, j))}

\* Every point is on or above baseline b.
IsBaseline(b) == \A j \in 1..Len(hull.points) : FLeq(Num(0), Offset2(b, j))

\* Every composition lies between the compositions of two points on b.
BaselineSpans(b) ==
    \A j \in 1..Len(hull.points) :
        \E y, z \in OnBaseline(b) :
            /\ FLeq(hull.points[y][1], hull.points[j][1])
            /\ FLeq(hull.points[j][1], hull.points[z][1])

\* The rows lower_hull returned as vertices, as positions 1..n of the points.
LowerVertices == {dft_hull_config_indices[v] + 1 : v \in 1..Len(dft_hull_config_indices)}

-----------------------------------------------------------------------------
(* find_proposed_ground_states: what it reports. *)

\* The hull energy the scan is meant to compare row j against under the ECI
\* vector e: the e-predicted energies of the DFT lower-hull vertex
\* configurations, interpolated at comp[j] (nan outside their span).
InterpolatedHull(j, e) ==
    griddata(HullComps(dft_hull_vertices), Matmul(dft_hull_corr, e), <<comp[j]>>).data[1]

\* Row j is predicted strictly below that hull under e.
PredictsBelow(j, e) == FLess(Num(Dot(corr[j], e)), InterpolatedHull(j, e))

\* The 0-based indices of the rows predicted below the hull under e.
BelowSet(e) == {j - 1 : j \in {i \in 1..Len(corr) : PredictsBelow(i, e)}}

SeqToSet(q) == {q[r] : r \in 1..Len(q)}

\* C3: for every ECI vector e of eci_set and every row j of the unfiltered
\* dataset, the scan reports index j for e if and only if corr[j].e is
\* strictly less than the e-predicted hull interpolated at comp[j], and every
\* reported index is a 0-based position of the unfiltered rows.  Stated of
\* the indices each pass of the loop adds.
C3_ReportsExactlyRowsBelow ==
    Built /\ eci_pos >= 1 =>
        /\ SeqToSet(below_hull_indices) = BelowSet(eci_set[eci_pos])
        /\ SeqToSet(below_hull_indices) \subseteq 0..(Len(corr) - 1)

\* The rows with a calculated energy, as positions 1..n.
CalculatedRows == {j \in 1..Len(formation_energy) : formation_energy[j].kind = "num"}

\* The calculated energies are exactly corr.e, and eci_set holds just e.
RoundTrip ==
    /\ Len(eci_set) = 1
    /\ \A j \in CalculatedRows : formation_energy[j].v = Dot(corr[j], eci_set[1])

PresentPoints ==
    LET idx == Nonzero([j \in 1..Len(formation_energy) |-> formation_energy[j].kind = "num"])
    IN  [t \in 1..Len(idx) |->
            [c \in 1..Len(comp[idx[t] + 1]) |-> Num(comp[idx[t] + 1][c])]
                \o <<Num(formation_energy[idx[t] + 1].v)>>]

\* C5: the point set handed to the convex-hull construction contains exactly
\* the rows whose formation energy is neither None nor {}, in their original
\* order; a row with a missing energy contributes no point.
C5_HullPointsAreCalculatedRows ==
    pc \notin {"start", "downsampled"} => points = PresentPoints

RECURSIVE BlockStart(_)
\* The number of indices the ECI vectors before the k-th one should add.
BlockStart(k) ==
    IF k <= 1 THEN 0 ELSE BlockStart(k - 1) + Cardinality(BelowSet(eci_set[k - 1]))

\* C6: the result keeps duplicates: index j occurs once for each ECI vector
\* under which row j lies below the hull, and the contributions appear in
\* eci_set order (the result is the block of the first ECI vector, then the
\* block of the second, and so on).
C6_DuplicatesInEciOrder ==
    pc = "returned" =>
        /\ Len(proposed_ground_states_indices) = BlockStart(Len(eci_set) + 1)
        /\ \A k \in 1..Len(eci_set) :
              {proposed_ground_states_indices[r] :
                  r \in (BlockStart(k) + 1)..BlockStart(k + 1)} = BelowSet(eci_set[k])

-----------------------------------------------------------------------------
(* checkhull: what a direct call returns. *)

Returned == pc = "checkhull_returned"

\* The hull energy linearly interpolated at the composition of query i
\* (nan outside the span of the hull compositions).
HullEnergyAt(i) == griddata(hull_comps, hull_energies, <<test_comp[i]>>).data[1]

\* The distance query i is meant to get.
Distance(i) == FSub(Num(test_energy[i]), HullEnergyAt(i))

\* C7: checkhull returns, for each query, the query energy minus the hull
\* energy interpolated at the query's composition: negative exactly below the
\* hull surface, zero on it, positive above it.
C7_QueryMinusInterpolatedHull ==
    Returned =>
        /\ Len(hull_dist) = Len(test_energy)
        /\ \A i \in 1..Len(test_energy) :
              /\ hull_dist[i] = Distance(i)
              /\ FLess(hull_dist[i], Num(0)) <=> FLess(Num(test_energy[i]), HullEnergyAt(i))
              /\ FEq(hull_dist[i], Num(0)) <=> FEq(Num(test_energy[i]), HullEnergyAt(i))
              /\ FLess(Num(0), hull_dist[i]) <=> FLess(HullEnergyAt(i), Num(test_energy[i]))

\* C8: a query exactly on the hull surface gets distance 0, also when several
\* queries share its composition: the output has one entry per query, in
\* query order.
C8_OnHullIsZeroPerQuery ==
    Returned =>
        /\ Len(hull_dist) = Len(test_energy)
        /\ \A i \in 1..Len(test_energy) :
              FEq(Num(test_energy[i]), HullEnergyAt(i)) => hull_dist[i] = Num(0)

\* The energies of the queries, each moved by d.
Shifted(d) == [i \in 1..Len(test_energy) |-> test_energy[i] + d]

Shifts == (-MaxEnergy - 1)..(MaxEnergy + 1)

\* C9: checkhull is linear in the query energy for a fixed composition and a
\* fixed hull: for a composition inside the hull's span, every energy E and
\* every shift d, distance(comp, E + d) = distance(comp, E) + d.  Stated of
\* the call with each single query, and of the whole call with every query
\* energy moved by d.
C9_LinearInEnergy ==
    Returned =>
        \A d \in Shifts :
            /\ \A i \in 1..Len(test_energy) :
                  LET here == checkhull(hull_comps, hull_energies,
                                        <<test_comp[i]>>, <<test_energy[i]>>)
                      moved == checkhull(hull_comps, hull_energies,
                                         <<test_comp[i]>>, <<test_energy[i] + d>>)
                  IN  /\ Len(here) = 1
                      /\ Len(moved) = 1
                      /\ ~HullEnergyAt(i).nan =>
                            /\ ~here[1].nan
                            /\ moved[1] = FAdd(here[1], Num(d))
            /\ LET moved == checkhull(hull_comps, hull_energies, test_comp, Shifted(d))
               IN  /\ Len(moved) = Len(hull_dist)
                   /\ \A r \in 1..Len(moved) :
                         ~hull_dist[r].nan => moved[r] = FAdd(hull_dist[r], Num(d))

\* A call on two composition axes with two queries, one of them inside the
\* span and off the hull surface.
C9_Witness ==
    /\ Returned
    /\ Len(test_comp[1]) = 2
    /\ Len(test_energy) = 2
    /\ \E i \in 1..Len(test_energy) :
          /\ ~HullEnergyAt(i).nan
          /\ ~FEq(Num(test_energy[i]), HullEnergyAt(i))

\* Twice the signed area of the triangle a, b, c.
Turn(a, b, c) == (b[1] - a[1]) * (c[2] - a[2]) - (b[2] - a[2]) * (c[1] - a[1])

\* x lies in the triangle a, b, c, its border included.
InsideTriangle(a, b, c, x) ==
    /\ Turn(a, b, c) # 0
    /\ Turn(a, b, x) * Turn(a, b, c) >= 0
    /\ Turn(b, c, x) * Turn(a, b, c) >= 0
    /\ Turn(c, a, x) * Turn(a, b, c) >= 0

\* The composition of query i lies outside the convex span of the hull
\* compositions: beyond both ends on one axis, in no triangle on two.
OutsideSpan(i) ==
    LET x == test_comp[i]
        H == 1..Len(hull_comps)
    IN  IF Len(x) = 1
        THEN ~\E a, b \in H : hull_comps[a][1] <= x[1] /\ x[1] <= hull_comps[b][1]
        ELSE ~\E a, b, c \in H :
                InsideTriangle(hull_comps[a], hull_comps[b], hull_comps[c], x)

\* C10: a query whose composition lies outside the convex span of the hull
\* compositions gets nan, not a number and not 0, while the queries inside
\* the span get their numeric distance.
C10_OutsideSpanIsNaN ==
    Returned =>
        \A i \in 1..Len(test_energy) :
            IF OutsideSpan(i)
            THEN hull_dist[i].nan
            ELSE ~hull_dist[i].nan /\ hull_dist[i] = Distance(i)

-----------------------------------------------------------------------------
(* lower_hull: the default energy_index and the vertex array. *)

\* The number of columns of the point matrix of the hull.
Columns_d == Len(hull.points[1])

\* Facet f's equation evaluated at point j of the hull, read as the normal
\* in the leading entries and the offset in the trailing one.
PlaneAt(f, j) ==
    LET eq == hull.equations[f]
        RECURSIVE Sum(_)
        Sum(c) == IF c = 0 THEN 0 ELSE Sum(c - 1) + eq[c] * hull.points[j][c].n
    IN  Sum(Columns_d) + eq[Columns_d + 1]

\* C11: with energy in the last of d columns, lower_hull with its default
\* energy_index tests, for every facet, the entry at 0-based position d - 1 of
\* the facet's equation of d + 1 entries: the energy component of the normal,
\* not the trailing offset at position d.
C11_DefaultIndexIsEnergyComponent ==
    hull.ok =>
        LET returned == lower_hull(hull, energy_index_default)[1]
        IN  \A f \in 1..Len(hull.simplices) :
               /\ Len(hull.equations[f]) = Columns_d + 1
               /\ \A t \in 1..Len(hull.simplices[f]) :
                     PlaneAt(f, hull.simplices[f][t] + 1) = 0
               /\ \A j \in 1..Len(hull.points) : PlaneAt(f, j) <= 0
               /\ LowerMask(hull, energy_index_default)[f]
                     <=> hull.equations[f][Columns_d] < 0
               /\ (\E r \in 1..Len(returned) : returned[r] = hull.simplices[f])
                     <=> hull.equations[f][Columns_d] < 0

\* A hull of three columns with a facet whose energy component is negative
\* and whose offset is not, and a facet the other way round.
C11_Witness ==
    /\ Built
    /\ Columns_d = 3
    /\ \E f, g \in 1..Len(hull.simplices) :
          /\ hull.equations[f][Columns_d] < 0
          /\ hull.equations[f][Columns_d + 1] >= 0
          /\ hull.equations[g][Columns_d] >= 0
          /\ hull.equations[g][Columns_d + 1] < 0

\* The point indices occurring in the facets q.
FacetIndices(q) == UNION {{q[r][t] : t \in 1..Len(q[r])} : r \in 1..Len(q)}

\* C12: the vertex array lower_hull returns is the deduplicated set of the
\* point indices occurring in at least one returned facet: no index twice,
\* none of a point in no lower facet, every index of every lower facet.
C12_VerticesAreFacetIndices ==
    hull.ok =>
        /\ \A k \in EnergyIndices(hull) :
              LET facets == lower_hull(hull, k)[1]
                  vertices == lower_hull(hull, k)[2]
              IN  /\ \A a, b \in 1..Len(vertices) : vertices[a] = vertices[b] => a = b
                  /\ SeqToSet(vertices) = FacetIndices(facets)
        /\ Built =>
              /\ \A a, b \in 1..Len(dft_hull_config_indices) :
                    dft_hull_config_indices[a] = dft_hull_config_indices[b] => a = b
              /\ SeqToSet(dft_hull_config_indices) = FacetIndices(dft_hull_simplices)

\* A lower hull of two or more facets, which share a point, on a hull with a
\* point in no lower facet.
C12_Witness ==
    /\ Built
    /\ Len(dft_hull_simplices) >= 2
    /\ Len(Ravel(dft_hull_simplices)) > Len(dft_hull_config_indices)
    /\ Len(dft_hull_config_indices) < Len(hull.points)

-----------------------------------------------------------------------------
(* find_proposed_ground_states: empty eci_set and degenerate datasets. *)

\* C13: called with an empty eci_set the scan returns an empty index
\* collection and the empty set is no error: once the hull is built the call
\* returns, without a hull distance computed and with nothing reported.
C13_EmptyEciSetReturnsEmpty ==
    eci_set = <<>> =>
        /\ pc = "loop" => ENABLED Return
        /\ pc \in {"loop", "returned"} =>
              /\ proposed_ground_states_indices = <<>>
              /\ hulldist = <<>>
        /\ pc = "raised" => HullRaises(points)

\* A call with an empty eci_set, on a dataset with an uncalculated row, that
\* has returned.
C13_Witness ==
    /\ eci_set = <<>>
    /\ pc = "returned"
    /\ Cardinality(CalculatedRows) < Len(corr)

\* The determinant of the rows u, v, w.
Det3(u, v, w) ==
      u[1] * (v[2] * w[3] - v[3] * w[2])
    - u[2] * (v[1] * w[3] - v[3] * w[1])
    + u[3] * (v[1] * w[2] - v[2] * w[1])

\* Row j of the dataset as a point: composition, then energy.
RowPoint(j) == comp[j] \o <<formation_energy[j].v>>

\* The calculated rows hold fewer than l + 2 affinely independent points.
CalculatedDegenerate ==
    IF Len(comp[1]) = 1
    THEN \A a, b, c \in CalculatedRows : Turn(RowPoint(a), RowPoint(b), RowPoint(c)) = 0
    ELSE \A a, b, c, d \in CalculatedRows :
            Det3([i \in 1..3 |-> RowPoint(b)[i] - RowPoint(a)[i]],
                 [i \in 1..3 |-> RowPoint(c)[i] - RowPoint(a)[i]],
                 [i \in 1..3 |-> RowPoint(d)[i] - RowPoint(a)[i]]) = 0

\* C14: when the calculated rows form a degenerate point set, the call fails
\* at the hull construction, before any hull distance is computed, and
\* produces no index result.
C14_DegenerateFailsAtHull ==
    CalculatedDegenerate =>
        /\ pc = "downsampled" => ENABLED BuildHull
        /\ pc \notin {"start", "downsampled"} =>
              /\ pc = "raised"
              /\ ~hull.ok
              /\ eci_pos = 0
              /\ hulldist = <<>>
              /\ proposed_ground_states_indices = <<>>

\* A failed call on three or more calculated rows on one line, with ECI
\* vectors waiting to be scanned.
C14_Witness ==
    /\ pc = "raised"
    /\ CalculatedDegenerate
    /\ Cardinality(CalculatedRows) >= 3
    /\ Cardinality({comp[j] : j \in CalculatedRows}) >= 2
    /\ eci_set # <<>>
    /\ ~HasNaN(points)

-----------------------------------------------------------------------------
(* The Metropolis sampler, src/old/old.py.                                  *)
(*                                                                         *)
(* old.py imports numpy, pickle and string only.  The other names          *)
(* run_eci_monte_carlo uses are read as what they name elsewhere in the    *)
(* repository and its libraries: lower_hull, checkhull and run_lassocv of  *)
(* clex.py, scipy's ConvexHull, sklearn's mean_squared_error.  The query   *)
(* reader (vu.casm_query_reader) delivers corr, comp and formation_energy. *)
(*                                                                         *)
(* Norms.  A Euclidean norm is a square root, which the exact numbers of   *)
(* the model do not hold.  The datasets of the sampler have an even number *)
(* n of calculated rows, for which (|a| / |b|) ^ (-n) is the rational      *)
(* number (|a|^2 / |b|^2) ^ (-n/2); an rms is kept as its square.          *)

\* Float division by zero gives this value (numpy: inf, with a warning).
Inf == [nan |-> FALSE, n |-> 1, d |-> 0]

\* a / b for floats a, b >= 0: 0 / 0 is nan, a / 0 is inf.
DivNonNeg(a, b) ==
    IF a.nan \/ b.nan THEN NaN
    ELSE IF b.n = 0 THEN (IF a.n = 0 THEN NaN ELSE Inf)
    ELSE FDiv(a, b)

RECURSIVE IntPow(_, _)
IntPow(b, m) == IF m = 0 THEN 1 ELSE b * IntPow(b, m - 1)

\* np.power(x, -m) for a float x >= 0 and an integer m >= 0.
PowerNeg(x, m) ==
    IF m = 0 THEN Num(1)
    ELSE IF x.nan THEN NaN
    ELSE IF x.d = 0 THEN Num(0)
    ELSE IF x.n = 0 THEN Inf
    ELSE Rat(IntPow(x.d, m), IntPow(x.n, m))

\* a * b for floats a, b >= 0: 0 * inf is nan.
MulNonNeg(a, b) ==
    IF a.nan \/ b.nan THEN NaN
    ELSE IF a.d = 0 \/ b.d = 0
         THEN (IF a.n = 0 \/ b.n = 0 THEN NaN ELSE Inf)
    ELSE FMul(a, b)

\* np.linalg.norm(v, ord=1) of an integer vector.
RECURSIVE Norm1(_)
Norm1(v) == IF v = <<>> THEN 0 ELSE Abs(Head(v)) + Norm1(Tail(v))

\* The square of np.linalg.norm(a - b) for integer vectors.
RECURSIVE NormSq(_, _)
NormSq(a, b) ==
    IF a = <<>> THEN 0
    ELSE (Head(a) - Head(b)) * (Head(a) - Head(b)) + NormSq(Tail(a), Tail(b))

\* lines 54-57
left_term(cur, prop) ==
    PowerNeg(DivNonNeg(Num(Norm1(prop)), Num(Norm1(cur))), Len(cur))

\* lines 59-64, for an even number of energies (see above).
right_term(cur_energy, prop_energy, fe) ==
    PowerNeg(DivNonNeg(Num(NormSq(fe, prop_energy)), Num(NormSq(fe, cur_energy))),
             Len(fe) \div 2)

\* metropolis_hastings_ratio without the clamp of lines 67-68.
metropolis_hastings_ratio_unclamped(cur, prop, cur_energy, prop_energy, fe) ==
    MulNonNeg(left_term(cur, prop), right_term(cur_energy, prop_energy, fe))

\* lines 28-69.  cur, prop: current_eci, proposed_eci; fe: formation_energy.
\* (The sampler's current_eci is the variable mc_current_eci: the name is
\* taken by the loop variable of find_proposed_ground_states.)
metropolis_hastings_ratio(cur, prop, cur_energy, prop_energy, fe) ==
    LET ratio == MulNonNeg(left_term(cur, prop), right_term(cur_energy, prop_energy, fe))
    IN  IF FLess(Num(1), ratio) THEN Num(1) ELSE ratio

\* The vectors generate_rand_eci_vec(num_eci, 1, normalization) can return
\* that have integer entries: Euclidean norm equal to normalization, along
\* one axis; the zero vector when normalization is 0.
generate_rand_eci_vec(num_eci, normalization) ==
    IF normalization = 0 THEN {[c \in 1..num_eci |-> 0]}
    ELSE {[c \in 1..num_eci |-> IF c = a THEN sign * normalization ELSE 0] :
              a \in 1..num_eci, sign \in {-1, 1}}

\* The values np.random.uniform() is drawn from here: multiples of
\* 1 / UniformSteps in [0, 1).
Uniforms == {Rat(j, UniformSteps) : j \in 0..(UniformSteps - 1)}

\* The energies of the calculated rows as integers.
Energies(fe) == [j \in 1..Len(fe) |-> fe[j].v]

\* mean_squared_error(y_true, y_pred) for integer vectors.
mean_squared_error(y_true, y_pred) == Rat(NormSq(y_true, y_pred), Len(y_true))

VectorAdd(a, b) == [c \in 1..Len(a) |-> a[c] + b[c]]

\* The variables of find_proposed_ground_states and of a direct call of
\* checkhull that the sampler has no counterpart of.
scanOnlyVars == <<eci_set, eci_pos, callVars>>

\* The test of line 194 with > for >=.
mh_accepts_strict(ratio, u) == FLess(u, ratio)

\* line 194: mh_ratio >= acceptance_comparison (False when the ratio is nan).
mh_accepts(ratio, u) == FLeq(u, ratio)

\* The test of line 220 with >= for >.
records_step_from_burn_in(i, burn, frequency) == i >= burn /\ i % frequency = 0

\* line 220: (i > burn_in) and (i % sample_frequency == 0)
records_step(i, burn, frequency) == i > burn /\ i % frequency = 0

\* The loop of line 176 giving up one pass early.
in_range_short(i, n) == i + 1 < n

\* line 176: for i in range(iterations) has a pass to make for index i.
in_range(i, n) == i < n

\* lines 136-175: read the data, keep the calculated rows, build the DFT hull
\* and its lower hull, and start the lists with the regression's ECI.
McSetup ==
    /\ pc = "mc_start"
    /\ corr_calculated' = MaskSelect(corr, downsample_selection(formation_energy))
    /\ formation_energy_calculated' =
           MaskSelect(formation_energy, downsample_selection(formation_energy))
    /\ comp_calculated' = MaskSelect(comp, downsample_selection(formation_energy))
    /\ points' = StackPoints(comp_calculated', formation_energy_calculated')
    /\ IF HullRaises(points')
       THEN /\ pc' = "raised"
            /\ UNCHANGED <<hull, dft_hull_simplices, dft_hull_config_indices,
                           dft_hull_corr, dft_hull_vertices, mc_current_eci, sampled_eci>>
       ELSE /\ pc' = "sampling"
            /\ \E V \in HullVertexChoices(points') : hull' = ConvexHull(points', V)
            /\ dft_hull_simplices' = lower_hull(hull', -2)[1]
            /\ dft_hull_config_indices' = lower_hull(hull', -2)[2]
            /\ dft_hull_corr' = Take(corr_calculated', dft_hull_config_indices')
            /\ dft_hull_vertices' = Take(hull'.points, dft_hull_config_indices')
            /\ mc_current_eci' = lasso_eci
            /\ sampled_eci' = <<lasso_eci>>
    /\ UNCHANGED <<corr, comp, formation_energy, hulldist, below_hull_indices,
                   proposed_ground_states_indices, scanOnlyVars, paramVars, mc_i,
                   eci_random_vec, proposed_eci, mh_ratio, acceptance_comparison,
                   acceptance, rms, acceptance_prob>>

\* lines 176-224: one pass of the loop.
McStep ==
    /\ pc = "sampling"
    /\ in_range(mc_i, iterations)
    /\ eci_random_vec' \in generate_rand_eci_vec(Len(lasso_eci), eci_walk_step_size)
    /\ proposed_eci' = VectorAdd(mc_current_eci, eci_random_vec')
    /\ acceptance_comparison' \in Uniforms
    /\ LET fe == Energies(formation_energy_calculated)
           current_energy == Matmul(corr_calculated, mc_current_eci)
           proposed_energy == Matmul(corr_calculated, proposed_eci')
           accepted == mh_accepts(mh_ratio', acceptance_comparison')
           energy_for_error == IF accepted THEN proposed_energy ELSE current_energy
           recorded == records_step(mc_i, burn_in, sample_frequency)
       IN  /\ mh_ratio' = metropolis_hastings_ratio(mc_current_eci, proposed_eci',
                                                    current_energy, proposed_energy, fe)
           /\ acceptance' = Append(acceptance, accepted)
           /\ mc_current_eci' = IF accepted THEN proposed_eci' ELSE mc_current_eci
           /\ rms' = Append(rms, [squared |-> mean_squared_error(fe, energy_for_error)])
           /\ hulldist' = checkhull(HullComps(dft_hull_vertices),
                                    Matmul(dft_hull_corr, mc_current_eci'),
                                    comp, Matmul(corr, mc_current_eci'))
           /\ below_hull_indices' = Nonzero(BelowHullSelection(hulldist'))
           /\ sampled_eci' = IF recorded THEN Append(sampled_eci, mc_current_eci')
                             ELSE sampled_eci
           /\ proposed_ground_states_indices' =
                  IF recorded THEN proposed_ground_states_indices \o below_hull_indices'
                  ELSE proposed_ground_states_indices
    /\ mc_i' = mc_i + 1
    /\ UNCHANGED <<pc, corr, comp, formation_energy, corr_calculated, comp_calculated,
                   formation_energy_calculated, points, hull, dft_hull_simplices,
                   dft_hull_config_indices, dft_hull_corr, dft_hull_vertices,
                   scanOnlyVars, paramVars, acceptance_prob>>

\* The number of True in a list of booleans.
RECURSIVE count_nonzero(_)
count_nonzero(q) ==
    IF q = <<>> THEN 0 ELSE (IF Head(q) THEN 1 ELSE 0) + count_nonzero(Tail(q))

\* lines 226-248: the loop is over; the acceptance probability is computed
\* (a division by the number of steps) and the results are returned.
McFinish ==
    /\ pc = "sampling"
    /\ ~in_range(mc_i, iterations)
    /\ IF Len(acceptance) = 0
       THEN /\ pc' = "raised"
            /\ acceptance_prob' = acceptance_prob
       ELSE /\ pc' = "finished"
            /\ acceptance_prob' = Rat(count_nonzero(acceptance), Len(acceptance))
    /\ UNCHANGED <<corr, comp, formation_energy, corr_calculated, comp_calculated,
                   formation_energy_calculated, points, hull, dft_hull_simplices,
                   dft_hull_config_indices, dft_hull_corr, dft_hull_vertices,
                   hulldist, below_hull_indices, proposed_ground_states_indices,
                   scanOnlyVars, paramVars, mc_i, mc_current_eci, eci_random_vec,
                   proposed_eci, mh_ratio, acceptance_comparison, acceptance, rms,
                   sampled_eci>>

\* Datasets of a binary alloy with four calculated rows: the end members, a
\* ground state and a configuration above the hull; with and without a
\* fifth, uncalculated row.  The ECI <<0, -1>> reproduces the four energies.
\* The third dataset holds the end members only, too few points for a hull.
McRows ==
    << <<<<0>>, Present(0), <<1, 0>>>>,
       <<<<2>>, Present(0), <<1, 0>>>>,
       <<<<1>>, Present(-1), <<1, 1>>>>,
       <<<<1>>, Present(1), <<1, -1>>>>,
       <<<<1>>, None, <<1, 2>>>> >>

McDatasets == {Columns(SubSeq(McRows, 1, 4)), Columns(McRows), Columns(SubSeq(McRows, 1, 2))}

\* What the regression of line 164 may return: no ECI at all, the ECI that
\* reproduce the energies, and ECI that do not.
McLassoEcis == {<<0, 0>>, <<0, -1>>, <<1, 1>>}

InitMC ==
    /\ pc = "mc_start"
    /\ \E d \in McDatasets :
          /\ comp = d[1]
          /\ formation_energy = d[2]
          /\ corr = d[3]
    /\ eci_walk_step_size \in 0..MaxStepSize
    /\ iterations \in 0..MaxIterations
    /\ sample_frequency \in 1..MaxFrequency
    /\ burn_in \in 0..MaxBurnIn
    /\ lasso_eci \in McLassoEcis
    /\ mc_i = 0
    /\ mc_current_eci = <<>>
    /\ eci_random_vec = <<>>
    /\ proposed_eci = <<>>
    /\ mh_ratio = NaN
    /\ acceptance_comparison = NaN
    /\ acceptance = <<>>
    /\ rms = <<>>
    /\ sampled_eci = <<>>
    /\ acceptance_prob = NaN
    /\ eci_set = <<>>
    /\ eci_pos = 0
    /\ corr_calculated = <<>>
    /\ comp_calculated = <<>>
    /\ formation_energy_calculated = <<>>
    /\ points = <<>>
    /\ hull = NoHull
    /\ dft_hull_simplices = <<>>
    /\ dft_hull_config_indices = <<>>
    /\ dft_hull_corr = <<>>
    /\ dft_hull_vertices = <<>>
    /\ hulldist = <<>>
    /\ below_hull_indices = <<>>
    /\ proposed_ground_states_indices = <<>>
    /\ hull_comps = <<>>
    /\ hull_energies = <<>>
    /\ test_comp = <<>>
    /\ test_energy = <<>>
    /\ hull_dist = <<>>

NextMC == McSetup \/ McStep \/ McFinish

\* run_eci_monte_carlo on the datasets above.
SpecMC == InitMC /\ [][NextMC]_vars

\* A step of the run seen from outside: the call moves to another place of
\* the function, or the loop ends a pass.  Such a step is possible exactly
\* while the call has not returned or raised, and the steps of NextMC that
\* are not stuttering are all of this kind.
Advance ==
    /\ pc \in {"mc_start", "sampling"}
    /\ pc' \in {"mc_start", "sampling", "finished", "raised"}
    /\ mc_i' \in {mc_i, mc_i + 1}
    /\ pc' # pc \/ mc_i' # mc_i

\* The same, with the interpreter running on: a call that has not returned
\* or raised takes its next step.
SpecMCFair == SpecMC /\ WF_<<pc, mc_i>>(Advance)

-----------------------------------------------------------------------------
(* C15.  Every step of the sampler accepts its proposal exactly when the   *)
(* step's ratio is at least the step's uniform draw.  An accepted step     *)
(* records True and makes the proposal (current ECI + perturbation) the    *)
(* current ECI; a rejected step records False and keeps the current ECI.   *)

\* A step of the loop has been taken between the two states.
StepTaken == mc_i' = mc_i + 1

RatioAtLeastDraw(ratio, u) == ~ratio.nan /\ ~u.nan /\ u.n * ratio.d <= ratio.n * u.d

C15_AcceptedIffRatioAtLeastDraw ==
    [][StepTaken =>
          /\ proposed_eci' = [c \in 1..Len(mc_current_eci) |->
                                 mc_current_eci[c] + eci_random_vec'[c]]
          /\ Len(acceptance') = Len(acceptance) + 1
          /\ SubSeq(acceptance', 1, Len(acceptance)) = acceptance
          /\ acceptance'[Len(acceptance')] = RatioAtLeastDraw(mh_ratio', acceptance_comparison')
          /\ IF RatioAtLeastDraw(mh_ratio', acceptance_comparison')
             THEN mc_current_eci' = proposed_eci'
             ELSE mc_current_eci' = mc_current_eci]_vars

\* A run with an accepted step that moved the chain and a rejected step,
\* one of them with the ratio equal to the draw.
C15_Witness ==
    /\ \E j \in 1..Len(acceptance) : acceptance[j]
    /\ \E j \in 1..Len(acceptance) : ~acceptance[j]
    /\ mc_current_eci # lasso_eci
    /\ FEq(mh_ratio, acceptance_comparison)

-----------------------------------------------------------------------------
(* C16.  The ratio of a step is                                            *)
(*   min(1, (|proposed|_1 / |current|_1) ^ (-k) * (|fe - pe| / |fe - ce|) ^ (-n)) *)
(* with k the number of ECI, n the number of calculated configurations,    *)
(* pe and ce the energies the proposed and the current ECI predict; it is  *)
(* never greater than 1.  With the four norms positive the product is      *)
(*   (|current|_1 ^ k * (|fe - ce|^2) ^ (n/2)) /                            *)
(*   (|proposed|_1 ^ k * (|fe - pe|^2) ^ (n/2))                             *)
(* and the equality is stated on these integers.                           *)

\* The sum of the absolute values of the entries of v.
L1(v) == LET RECURSIVE S(_)
             S(j) == IF j = 0 THEN 0
                     ELSE (IF v[j] < 0 THEN -v[j] ELSE v[j]) + S(j - 1)
         IN  S(Len(v))

\* The energy row r of corr_calculated has under the ECI v.
Predicted(r, v) ==
    LET RECURSIVE S(_)
        S(c) == IF c = 0 THEN 0 ELSE corr_calculated[r][c] * v[c] + S(c - 1)
    IN  S(Len(v))

\* The sum of the squared residuals of the calculated rows under the ECI v.
ResidualSq(v) ==
    LET RECURSIVE S(_)
        S(r) == IF r = 0 THEN 0
                ELSE (formation_energy_calculated[r].v - Predicted(r, v))
                     * (formation_energy_calculated[r].v - Predicted(r, v)) + S(r - 1)
    IN  S(Len(formation_energy_calculated))

RECURSIVE Power(_, _)
Power(b, m) == IF m = 0 THEN 1 ELSE b * Power(b, m - 1)

\* Numerator and denominator of the unclamped product, for the current ECI
\* cur and the proposal prop.
ProductNum(cur, prop) ==
    Power(L1(cur), Len(cur))
    * Power(ResidualSq(cur), Len(formation_energy_calculated) \div 2)

ProductDen(cur, prop) ==
    Power(L1(prop), Len(cur))
    * Power(ResidualSq(prop), Len(formation_energy_calculated) \div 2)

NormsPositive(cur, prop) ==
    /\ L1(cur) > 0
    /\ L1(prop) > 0
    /\ ResidualSq(cur) > 0
    /\ ResidualSq(prop) > 0

C16_RatioIsClampedProduct ==
    [][StepTaken =>
          /\ ~(~mh_ratio'.nan /\ mh_ratio'.n > mh_ratio'.d /\ mh_ratio'.d >= 0)
          /\ NormsPositive(mc_current_eci, proposed_eci') =>
                /\ ~mh_ratio'.nan
                /\ mh_ratio'.d > 0
                /\ IF ProductNum(mc_current_eci, proposed_eci')
                          >= ProductDen(mc_current_eci, proposed_eci')
                   THEN mh_ratio'.n = mh_ratio'.d
                   ELSE mh_ratio'.n * ProductDen(mc_current_eci, proposed_eci')
                          = mh_ratio'.d * ProductNum(mc_current_eci, proposed_eci')]_vars

\* A step whose ratio is a proper fraction: the product itself, unclamped.
C16_Witness ==
    /\ mc_i > 0
    /\ ~mh_ratio.nan
    /\ 0 < mh_ratio.n
    /\ mh_ratio.n < mh_ratio.d

-----------------------------------------------------------------------------
(* C17.  The sampler leaves its burn-in at step index burn_in: step i is   *)
(* recorded exactly when burn_in <= i and i is a multiple of               *)
(* sample_frequency; in particular step burn_in is recorded when burn_in   *)
(* is such a multiple, and no earlier step is.                             *)
(* The loop tests i > burn_in (line 220), so step burn_in is never         *)
(* recorded: the statement fails, for instance with burn_in = 0 and        *)
(* sample_frequency = 1 at step 0.                                         *)

\* The step taken between the two states appended a row to sampled_eci.
StepRecorded == Len(sampled_eci') = Len(sampled_eci) + 1

C17_RecordedFromBurnIn ==
    [][StepTaken =>
          (StepRecorded <=> (burn_in <= mc_i /\ mc_i % sample_frequency = 0))]_vars

-----------------------------------------------------------------------------
(* C18.  The sampled_eci of a finished run has (iterations - burn_in) /    *)
(* sample_frequency rows.                                                  *)
(* As stated this fails: with burn_in = 1, sample_frequency = 2 and        *)
(* iterations = 3 there are 2 rows, and with burn_in >= iterations there   *)
(* is 1.  What holds: the rows are the ECI of the regression (line 175)    *)
(* and one row for every multiple of sample_frequency strictly between     *)
(* burn_in and iterations; that is (iterations - burn_in) /                *)
(* sample_frequency when sample_frequency divides burn_in and iterations   *)
(* and burn_in < iterations.                                               *)

MultiplesBetween ==
    {i \in 0..(iterations - 1) : burn_in < i /\ i % sample_frequency = 0}

-----------------------------------------------------------------------------
(* C19.  A run with iterations >= 1 whose hull has been built takes        *)
(* exactly `iterations` steps and then returns its result.  Every step     *)
(* appends one entry to acceptance and one to rms, none is removed or      *)
(* rewritten, so the returned sequences hold one entry per step, in step   *)
(* order.  (iterations >= 1 is the domain the specification gives; stated  *)
(* under SpecMCFair, the loop running on by itself.)                       *)

Extends(longer, shorter) ==
    /\ Len(longer) = Len(shorter) + 1
    /\ SubSeq(longer, 1, Len(shorter)) = shorter

C19_FinishesAfterIterationsSteps ==
    /\ [](pc = "finished" =>
             /\ mc_i = iterations
             /\ Len(acceptance) = iterations
             /\ Len(rms) = iterations)
    /\ [][/\ StepTaken => (Extends(acceptance', acceptance) /\ Extends(rms', rms))
          /\ ~StepTaken => (acceptance' = acceptance /\ rms' = rms /\ mc_i' = mc_i)]_vars
    /\ ((pc = "sampling" /\ iterations >= 1) ~> (pc = "finished"))

\* A run of three steps that has returned.
C19_Witness ==
    /\ pc = "finished"
    /\ iterations = MaxIterations
    /\ Len(acceptance) = MaxIterations
    /\ Len(rms) = MaxIterations
    /\ acceptance_prob # NaN

-----------------------------------------------------------------------------
(* C20.  A finished run with eci_walk_step_size = 0 has acceptance         *)
(* probability exactly 1: every proposal equals the current ECI, every     *)
(* ratio is 1 and every step is accepted, whatever the dataset and the     *)
(* ECI of the regression.                                                  *)
(* This fails when the regression returns no ECI at all (all zero: the     *)
(* quotient of the L1 norms is 0 / 0) or ECI that reproduce the calculated *)
(* energies (the quotient of the residual norms is 0 / 0): the ratio is    *)
(* nan, line 194 compares False and every step is rejected.                *)

C20_ZeroStepAlwaysAccepted ==
    (pc = "finished" /\ eci_walk_step_size = 0) =>
        /\ acceptance_prob = Num(1)
        /\ \A j \in 1..Len(acceptance) : acceptance[j]
        /\ mh_ratio = Num(1)
        /\ proposed_eci = mc_current_eci

-----------------------------------------------------------------------------
(* C21.  The sampler is deterministic given its seed: two runs with the    *)
(* same inputs, parameters and seed produce the same sampled_eci.          *)
(* run_eci_monte_carlo takes no seed and no generator (lines 72-79) and    *)
(* never seeds one: lines 23 and 193 draw from numpy's process-wide        *)
(* generator, whose state at the call is not among the inputs of the run   *)
(* and moves with every other draw in the process.  What two runs share is *)
(* their inputs and parameters, so the statement is that two runs that     *)
(* went the same way up to a step go the same way through it: the current  *)
(* ECI and the sample trace after the step are the same for every          *)
(* perturbation and every acceptance draw the generator can deliver.       *)

\* The current ECI after a step from the present state that draws the
\* perturbation v and the acceptance comparison u.
CurrentAfter(v, u) ==
    LET prop == [c \in 1..Len(mc_current_eci) |-> mc_current_eci[c] + v[c]]
        ratio == metropolis_hastings_ratio(mc_current_eci, prop,
                                           Matmul(corr_calculated, mc_current_eci),
                                           Matmul(corr_calculated, prop),
                                           Energies(formation_energy_calculated))
    IN  IF mh_accepts(ratio, u) THEN prop ELSE mc_current_eci

\* The sample trace after that step.
TraceAfter(v, u) ==
    IF records_step(mc_i, burn_in, sample_frequency)
    THEN Append(sampled_eci, CurrentAfter(v, u))
    ELSE sampled_eci

C21_SameInputsSameTrace ==
    [][StepTaken =>
          \A v \in generate_rand_eci_vec(Len(lasso_eci), eci_walk_step_size),
             u \in Uniforms :
                /\ CurrentAfter(v, u) = mc_current_eci'
                /\ TraceAfter(v, u) = sampled_eci']_vars

-----------------------------------------------------------------------------
(* C22.  A step whose acceptance ratio (or a predicted energy) is nan or   *)
(* infinite aborts the run: a run that goes on after a step, or returns,   *)
(* computed a finite ratio in it, and its traces hold an entry for that    *)
(* step only then.                                                         *)
(* The code tests nothing: a nan ratio compares False at lines 67 and 194, *)
(* is recorded as a rejection and the run goes on to return its result.    *)

C22_RunGoesOnOnlyAfterFiniteRatio ==
    (pc \in {"sampling", "finished"} /\ mc_i > 0) =>
        /\ ~mh_ratio.nan
        /\ mh_ratio.d # 0

-----------------------------------------------------------------------------
(* C23.  A run with a malformed configuration, burn_in >= iterations,      *)
(* fails before any computation: it never holds downsampled data, a hull,  *)
(* the ECI of the regression or a step.                                    *)
(* The code validates no parameter: such a run reads the data, builds the  *)
(* hull, runs the regression, makes all its steps and returns a result     *)
(* whose sampled_eci is the regression's ECI alone.                        *)

Malformed == burn_in >= iterations

C23_MalformedFailsBeforeComputation ==
    Malformed =>
        /\ pc \in {"mc_start", "raised"}
        /\ corr_calculated = <<>>
        /\ points = <<>>
        /\ hull = NoHull
        /\ sampled_eci = <<>>
        /\ mc_i = 0

-----------------------------------------------------------------------------
(* C24.  The chain checks a cancellation signal between steps and, when    *)
(* cancelled after j steps, returns a result with the traces of those j    *)
(* steps.  Whatever the signal is, honouring it means leaving the loop     *)
(* between two steps: from every state between steps the return of lines   *)
(* 226-248, with the traces as they stand, has to be possible.             *)
(* The loop of line 176 reads no signal and has no break: its only exit is *)
(* the end of range(iterations), so between steps with steps left the      *)
(* return is not possible.                                                 *)

\* Between two steps of a run with iterations in its domain.
BetweenSteps == pc = "sampling" /\ iterations >= 1

C24_ReturnPossibleBetweenSteps ==
    BetweenSteps =>
        ENABLED (/\ McFinish
                 /\ pc' = "finished"
                 /\ acceptance' = acceptance
                 /\ rms' = rms)

-----------------------------------------------------------------------------
(* C25.  The hull energy checkhull interpolates at a row's composition is  *)
(* the linear interpolation over the lower-hull facet (a simplex returned  *)
(* by lower_hull) whose composition triangle holds the row; outside every  *)
(* such triangle no hull energy is defined.                                *)
(* checkhull is handed the lower-hull vertices only (lines 149-154) and    *)
(* griddata (line 65) triangulates their compositions anew, by Delaunay's  *)
(* rule.  On the quadrilateral below, with the energies -1, 0, -1, 0 at    *)
(* its corners, the lower hull folds along the diagonal (0,0)-(2,2) while  *)
(* the Delaunay triangulation uses the diagonal (2,0)-(0,1): at the        *)
(* composition (1,1) the code interpolates -1/4, the lower hull gives -1.  *)

\* Datasets of a ternary alloy: four configurations at the corners of a
\* quadrilateral of compositions that has one Delaunay triangulation, with
\* every combination of energies, and a fifth configuration inside it,
\* calculated or not.  corr[j] = <<1, E[j]>>: the ECI <<0, 1>> reproduces
\* the energies.
MeshComps == << <<0, 0>>, <<2, 0>>, <<2, 2>>, <<0, 1>> >>

MeshDatasets ==
    {<<MeshComps \o << <<1, 1>> >>,
       [j \in 1..4 |-> Present(e[j])] \o <<q>>,
       [j \in 1..4 |-> <<1, e[j]>>] \o << <<1, MaxEnergy>> >> >> :
          e \in [1..4 -> (-MaxEnergy)..MaxEnergy], q \in {None, Present(MaxEnergy)}}

\* Datasets with a configuration beyond the compositions of the calculated
\* ones, its energy not calculated and its correlations such that the ECI
\* of ScanEciValues predict it low: a ternary alloy with the calculated
\* compositions (0,0), (2,0), (0,2), (1,1) and the uncalculated (2,2), and
\* a binary alloy with the calculated compositions 0, 1, 1 and the
\* uncalculated 2; every combination of calculated energies.
SpanDatasets ==
    {<< << <<0, 0>>, <<2, 0>>, <<0, 2>>, <<1, 1>>, <<2, 2>> >>,
        [j \in 1..4 |-> Present(e[j])] \o <<None>>,
        [j \in 1..4 |-> <<1, e[j]>>] \o << <<-MaxEnergy - 1, MaxEnergy + 1>> >> >> :
           e \in [1..4 -> (-MaxEnergy)..MaxEnergy]}
    \cup
    {<< << <<0>>, <<1>>, <<1>>, <<2>> >>,
        [j \in 1..3 |-> Present(e[j])] \o <<None>>,
        [j \in 1..3 |-> <<1, e[j]>>] \o << <<-MaxEnergy - 1, MaxEnergy + 1>> >> >> :
           e \in [1..3 -> (-MaxEnergy)..MaxEnergy]}

InitMesh == InitOver(MeshDatasets, HullEciSets) \/ InitOver(SpanDatasets, ScanEciSets)

\* find_proposed_ground_states on the quadrilateral datasets and on the
\* datasets with a configuration outside the span.
SpecMesh == InitMesh /\ [][Next]_vars

\* The hull energy the last pass of the loop interpolated at row j, read
\* back from hulldist: with two composition axes hulldist holds, row by row,
\* the table of predicted energy i minus hull energy j (C7).
InterpolatedAt(j) ==
    LET e == eci_set[eci_pos]
    IN  IF Len(hulldist) = Len(comp)
        THEN FSub(Num(Dot(corr[j], e)), hulldist[j])
        ELSE FSub(Num(Dot(corr[1], e)), hulldist[j])

\* The lower-hull facets, as triples of 1-based calculated rows, whose
\* composition triangle holds the composition of row j.
FacetsHolding(j) ==
    {f \in 1..Len(dft_hull_simplices) :
        InsideTriangle(comp_calculated[dft_hull_simplices[f][1] + 1],
                       comp_calculated[dft_hull_simplices[f][2] + 1],
                       comp_calculated[dft_hull_simplices[f][3] + 1],
                       comp[j])}

\* The predicted energies at the corners of facet f, interpolated at row j.
OverFacet(f, j) ==
    LET e == eci_set[eci_pos]
        r == [k \in 1..3 |-> dft_hull_simplices[f][k] + 1]
        y == [k \in 1..3 |-> Dot(corr_calculated[r[k]], e)]
        a == comp_calculated[r[1]]
        b == comp_calculated[r[2]]
        c == comp_calculated[r[3]]
    IN  Rat(Turn(comp[j], b, c) * y[1] + Turn(a, comp[j], c) * y[2]
            + Turn(a, b, comp[j]) * y[3], Turn(a, b, c))

C25_MeshIsLowerHullFacets ==
    (pc \in {"loop", "returned"} /\ eci_pos >= 1 /\ Len(comp[1]) = 2) =>
        \A j \in 1..Len(comp) :
            IF FacetsHolding(j) = {}
            THEN InterpolatedAt(j).nan
            ELSE \A f \in FacetsHolding(j) : FEq(InterpolatedAt(j), OverFacet(f, j))

-----------------------------------------------------------------------------
(* C26.  Every row of sampled_eci is the current ECI at the end of a step  *)
(* past burn-in whose index is a multiple of sample_frequency, each such   *)
(* step gives one row, in step order: before the first step there is no    *)
(* row, and at any time there are as many rows as such steps were made.    *)
(* ("Past burn-in" is read as the code tests it, i > burn_in, so that the  *)
(* statement does not fail through C17.)                                   *)
(* Line 175 appends the ECI of the regression before the loop: the first   *)
(* row comes from no step, and there is always one row more.               *)

\* The steps made so far that are past burn-in, on a multiple of
\* sample_frequency.
SampledSteps ==
    {i \in 0..(mc_i - 1) : burn_in < i /\ i % sample_frequency = 0}

C26_RowsAreSampledSteps ==
    pc \in {"sampling", "finished"} =>
        /\ Len(sampled_eci) = Cardinality(SampledSteps)
        /\ mc_i = 0 => sampled_eci = <<>>

-----------------------------------------------------------------------------
(* C27.  The proposed_ground_states_indices a run returns is what          *)
(* find_proposed_ground_states returns for the same corr, comp and         *)
(* formation_energy when eci_set is the sequence of the ECI appended to    *)
(* the sample trace at the sampled steps, in step order (the rows of       *)
(* sampled_eci after the regression's ECI, which line 175 appends before   *)
(* the loop).                                                              *)

\* Lines 143-164 of clex.py over the ECI vectors ecis, for the hull rows
\* with correlations h_corr and points h_vertices.
RECURSIVE ScanOver(_, _, _)
ScanOver(h_corr, h_vertices, ecis) ==
    IF ecis = <<>> THEN <<>>
    ELSE LET dist == checkhull(HullComps(h_vertices), Matmul(h_corr, Head(ecis)),
                               comp, Matmul(corr, Head(ecis)))
         IN  Nonzero([k \in 1..Len(dist) |-> FLess(dist[k], Num(0))])
             \o ScanOver(h_corr, h_vertices, Tail(ecis))

\* find_proposed_ground_states(corr, comp, formation_energy, ecis) as one
\* value, for the hull vertices V that ConvexHull reports.
find_proposed_ground_states(V, ecis) ==
    LET selection == downsample_selection(formation_energy)
        cc == MaskSelect(corr, selection)
        h == ConvexHull(StackPoints(MaskSelect(comp, selection),
                                    MaskSelect(formation_energy, selection)), V)
        indices == lower_hull(h, -2)[2]
    IN  ScanOver(Take(cc, indices), Take(h.points, indices), ecis)

C27_IndicesAreScanOfSampledEci ==
    pc = "finished" =>
        \E V \in HullVertexChoices(points) :
            proposed_ground_states_indices
                = find_proposed_ground_states(V, Tail(sampled_eci))

\* A finished run with two sampled steps, the chain having moved between
\* them, and rows reported below the hull.
C27_Witness ==
    /\ pc = "finished"
    /\ Len(sampled_eci) = 3
    /\ sampled_eci[2] # sampled_eci[3]
    /\ proposed_ground_states_indices # <<>>

-----------------------------------------------------------------------------
(* C28.  find_proposed_ground_states treats the vectors of eci_set         *)
(* independently: what the loop has accumulated after k vectors is the     *)
(* concatenation, in order, of the results for each of these vectors taken *)
(* alone, and the hull these results are computed against is the one of    *)
(* the dataset, the same for every pass.  So the result for A followed by  *)
(* B is the result for A followed by the result for B.                     *)

\* The result for the one-vector set <<e>>, for a dataset with the hull of
\* the present state.
Alone(e) == ScanOver(dft_hull_corr, dft_hull_vertices, <<e>>)

RECURSIVE EachAlone(_)
EachAlone(k) == IF k = 0 THEN <<>> ELSE EachAlone(k - 1) \o Alone(eci_set[k])

\* The hull rows of the present state are those of the dataset.
HullOfDataset ==
    \E V \in HullVertexChoices(points) :
        LET indices == lower_hull(ConvexHull(points, V), -2)[2]
        IN  /\ dft_hull_corr = Take(MaskSelect(corr, downsample_selection(formation_energy)),
                                    indices)
            /\ dft_hull_vertices = Take(points, indices)

C28_EachVectorAlone ==
    pc \in {"loop", "returned"} =>
        /\ proposed_ground_states_indices = EachAlone(eci_pos)
        /\ HullOfDataset
        /\ pc = "returned" => eci_pos = Len(eci_set)

\* A returned scan of two different vectors, each reporting rows, and not
\* the same rows.
C28_Witness ==
    /\ pc = "returned"
    /\ Len(eci_set) = 2
    /\ Alone(eci_set[1]) # <<>>
    /\ Alone(eci_set[2]) # <<>>
    /\ Alone(eci_set[1]) # Alone(eci_set[2])

-----------------------------------------------------------------------------
(* C29.  No configuration that is a vertex of the DFT lower hull is        *)
(* reported, under any ECI vector: its predicted energy is the predicted   *)
(* hull at its own composition, its distance is 0.                         *)
(* With two composition axes the reported numbers are positions in the     *)
(* table of C7: position j of its first row holds predicted energy 0 minus *)
(* hull energy j, and is reported as index j when row 0 is predicted below *)
(* hull vertex j.                                                          *)

\* The 0-based rows of the dataset that are vertices of the DFT lower hull.
HullVertexRows ==
    LET kept == Nonzero(downsample_selection(formation_energy))
    IN  {kept[dft_hull_config_indices[t] + 1] : t \in 1..Len(dft_hull_config_indices)}

C29_HullVerticesNeverReported ==
    Built =>
        \A r \in 1..Len(proposed_ground_states_indices) :
            proposed_ground_states_indices[r] \notin HullVertexRows

-----------------------------------------------------------------------------
(* C30.  A configuration whose composition lies outside the convex span of *)
(* the compositions of the DFT lower-hull vertices is never reported,      *)
(* under any ECI vector, however low its predicted energy is.              *)
(* Its hull energy is nan and no comparison with nan is true.  With two    *)
(* composition axes this survives C7: the position that carries the index  *)
(* of row j in the table is predicted energy 0 minus hull energy j, nan    *)
(* for a row j outside the span.                                           *)

\* Row j (1-based) lies outside the convex span of the compositions of the
\* lower-hull vertices.
OutsideHullSpan(j) ==
    LET hc == HullComps(dft_hull_vertices)
        H == 1..Len(hc)
    IN  IF Len(comp[j]) = 1
        THEN ~\E a, b \in H : hc[a][1] <= comp[j][1] /\ comp[j][1] <= hc[b][1]
        ELSE ~\E a, b, c \in H : InsideTriangle(hc[a], hc[b], hc[c], comp[j])

C30_OutsideSpanNeverReported ==
    Built =>
        \A j \in 1..Len(comp) :
            OutsideHullSpan(j) =>
                \A r \in 1..Len(proposed_ground_states_indices) :
                    proposed_ground_states_indices[r] # j - 1

\* A returned scan that reported rows, with a row outside the span that an
\* ECI vector of the set predicts below every other row.
C30_Witness ==
    /\ pc = "returned"
    /\ hull.ok
    /\ proposed_ground_states_indices # <<>>
    /\ \E j \in 1..Len(comp), k \in 1..Len(eci_set) :
          /\ OutsideHullSpan(j)
          /\ \A i \in 1..Len(comp) :
                i # j => Dot(corr[j], eci_set[k]) < Dot(corr[i], eci_set[k])

====
